---- MODULE Spec2Model ----
(***************************************************************************)
(* Model of src/app.py: the life-expectancy heuristic                      *)
(* (predict_life_expectancy and its coercion helpers) and the request      *)
(* handlers around it (register, login with its session throttle, logout,  *)
(* forgot/reset password, predict, dashboard, download, admin).            *)
(*                                                                         *)
(* Numbers.  Python floats are modelled as integers counting hundredths    *)
(* (H(78) = 7800 stands for 78.0).  Every value the scoring code computes  *)
(* is a multiple of 0.5, so the hundredths are exact.  Integers (age,      *)
(* systolic_bp, ...) are plain integers.  A float parsed from a form field *)
(* is a record [kind, v] so that nan and the infinities keep their own     *)
(* comparison behaviour.                                                   *)
(***************************************************************************)
EXTENDS Integers, Sequences, FiniteSets, TLC

VARIABLES
    inputs,         \* the dict handed to predict_life_expectancy
    result,         \* what predict_life_expectancy returned (or that it raised)
    score_trace,    \* the local `score` after line 152 and after each adjustment
    users,          \* table User, in id order
    predictions,    \* table Prediction, in id order
    resets,         \* table PasswordReset, in id order
    session,        \* per client: the flask session (user id, login_attempts)
    now,            \* datetime.utcnow(), in seconds
    response,       \* the last response sent: who was served which predictions
    checked,        \* history: per client, the times of the login POSTs that
                    \* reached the credential check since the last success
    issued          \* history: per email, the reset code issued last

vars == <<inputs, result, score_trace, users, predictions, resets, session,
          now, response, checked, issued>>

(***************************************************************************)
(* Helpers                                                                 *)
(***************************************************************************)

\* n whole units as hundredths
H(n) == n * 100

\* the largest finite double, scaled down so that the model's arithmetic
\* stays inside TLC's integers (in hundredths)
FloatMax == 1000000000

\* clamp with the lower bound forgotten: min(hi, v)
clamp_no_floor(v, lo, hi) == IF v < hi THEN v ELSE hi

\* Python's clamp(v, lo, hi) == max(lo, min(hi, v))
clamp(v, lo, hi) ==
    LET m == IF v < hi THEN v ELSE hi
    IN  IF m > lo THEN m ELSE lo

\* int(x) of a number in hundredths: truncation toward zero
TruncInt(x) == IF x >= 0 THEN x \div 100 ELSE -((-x) \div 100)

\* round(x, 1) of a number in hundredths: to the nearest tenth, a tie to the
\* even tenth
Round1(x) ==
    LET a == IF x >= 0 THEN x ELSE -x
        q == a \div 10
        r == a % 10
        t == IF r > 5 \/ (r = 5 /\ q % 2 = 1) THEN q + 1 ELSE q
    IN  IF x >= 0 THEN t * 10 ELSE -(t * 10)

(***************************************************************************)
(* Form fields.  A numeric field as it arrives: absent (None), text that   *)
(* float() rejects, a decimal literal (v in hundredths), or one of the     *)
(* literals float() accepts without a finite value.                        *)
(***************************************************************************)
Absent == [kind |-> "absent", v |-> 0]
Text == [kind |-> "text", v |-> 0]
Num(v) == [kind |-> "num", v |-> v]
NaN == [kind |-> "nan", v |-> 0]
PInf == [kind |-> "pinf", v |-> 0]
NInf == [kind |-> "ninf", v |-> 0]

\* str(v).lower() on the tokens the model sends for a checkbox
Lower(s) ==
    CASE s = "On" -> "on"
      [] s = "TRUE" -> "true"
      [] s = "Yes" -> "yes"
      [] s = "None" -> "none"
      [] OTHER -> s

normalize_bool(v) == Lower(v) \in {"1", "true", "on", "yes"}

\* int(float(v)): float() raises on None and on text, int() raises on nan and
\* on the infinities; every exception gives the default
safe_int(raw, default) ==
    IF raw.kind = "num" THEN TruncInt(raw.v) ELSE default

\* float(v): raises on None and on text only
safe_float(raw, default) ==
    IF raw.kind \in {"absent", "text"} THEN Num(default) ELSE raw

\* Python truth value of a float: false only for 0.0
Truthy(f) == ~(f.kind = "num" /\ f.v = 0)

\* f < c and c <= f for a float f and a finite constant c (hundredths); every
\* comparison with nan is false
FLt(f, c) == \/ f.kind = "ninf"
             \/ f.kind = "num" /\ f.v < c
FGe(f, c) == \/ f.kind = "pinf"
             \/ f.kind = "num" /\ f.v >= c
FLe(f, c) == \/ f.kind = "ninf"
             \/ f.kind = "num" /\ f.v <= c

\* the form carries no sex field: inputs.get('sex', 'other')
NoSex == "(absent)"

(***************************************************************************)
(* predict_life_expectancy: the parsed fields                              *)
(***************************************************************************)
BASE_LIFE_EXPECTANCY == 78

Parse(in) ==
    [age |-> safe_int(in.age, 0),
     sex |-> IF in.sex = NoSex THEN "other" ELSE in.sex,
     bmi |-> safe_float(in.bmi, 0),
     diabetic |-> normalize_bool(in.diabetic),
     systolic_bp |-> safe_int(in.systolic_bp, 0),
     smoker |-> normalize_bool(in.smoker),
     sleep |-> safe_float(in.daily_sleep_hours, 0),
     exercise |-> safe_int(in.weekly_exercise_minutes, 0),
     alcohol |-> safe_int(in.alcohol_units_per_week, 0),
     fv |-> safe_int(in.fruits_veg_servings_per_day, 0),
     stress |-> clamp(safe_int(in.stress_level, 5), 1, 10),
     chol |-> safe_int(in.cholesterol, 180)]

(***************************************************************************)
(* The adjustments, one per block of lines 154-197, in hundredths          *)
(***************************************************************************)
SexAdj(sex) ==
    IF sex = "female" THEN H(3)
    ELSE IF sex = "male" THEN H(1)
    ELSE 0

BmiAdj(bmi) ==
    IF ~Truthy(bmi) THEN 0
    ELSE IF FLt(bmi, 1850) THEN -H(2)
    ELSE IF FGe(bmi, 1850) /\ FLt(bmi, H(25)) THEN H(2)
    ELSE IF FGe(bmi, H(25)) /\ FLt(bmi, H(30)) THEN -H(1)
    ELSE -H(3)

\* the bands with their lower edges shifted by one
BpAdj_shifted(bp) ==
    IF bp = 0 THEN 0
    ELSE IF bp <= 120 THEN H(1)
    ELSE IF bp <= 130 THEN 0
    ELSE IF bp <= 140 THEN -H(1)
    ELSE IF bp <= 160 THEN -H(3)
    ELSE -H(5)

BpAdj(bp) ==
    IF bp = 0 THEN 0
    ELSE IF bp < 120 THEN H(1)
    ELSE IF 120 <= bp /\ bp <= 129 THEN 0
    ELSE IF 130 <= bp /\ bp <= 139 THEN -H(1)
    ELSE IF 140 <= bp /\ bp <= 159 THEN -H(3)
    ELSE -H(5)

DiabeticAdj(d) == IF d THEN -H(5) ELSE 0

SmokerAdj(s) == IF s THEN -H(7) ELSE 0

SleepAdj(sleep) ==
    IF ~Truthy(sleep) THEN 0
    ELSE IF FGe(sleep, 650) /\ FLe(sleep, 850) THEN H(2)
    ELSE -H(2)

ExerciseAdj(e) ==
    IF e >= 150 THEN H(3)
    ELSE IF e >= 60 THEN H(1)
    ELSE -H(1)

AlcoholAdj(a) ==
    IF a = 0 THEN H(1)
    ELSE IF 1 <= a /\ a <= 7 THEN 0
    ELSE IF 8 <= a /\ a <= 14 THEN -H(1)
    ELSE -H(3)

FruitVegAdj(fv) ==
    IF fv >= 5 THEN H(2)
    ELSE IF fv >= 3 THEN H(1)
    ELSE -H(1)

\* stress below 4 earning nothing: clamp(stress - 4, 0, 6)
StressAdj_no_bonus(stress) == -(clamp(stress - 4, 0, 6) * 50)

\* score -= clamp(stress - 4, -3, 6) * 0.5
StressAdj(stress) == -(clamp(stress - 4, -3, 6) * 50)

CholAdj(chol) ==
    IF chol < 180 THEN H(1)
    ELSE IF 180 <= chol /\ chol <= 199 THEN 0
    ELSE IF 200 <= chol /\ chol <= 239 THEN -H(1)
    ELSE -H(2)

\* the adjustments in the order the code applies them
Adjustments(p) ==
    << SexAdj(p.sex), BmiAdj(p.bmi), BpAdj(p.systolic_bp),
       DiabeticAdj(p.diabetic), SmokerAdj(p.smoker), SleepAdj(p.sleep),
       ExerciseAdj(p.exercise), AlcoholAdj(p.alcohol), FruitVegAdj(p.fv),
       StressAdj(p.stress), CholAdj(p.chol) >>

\* the position of the blood-pressure block among the adjustments
BpStep == 3

\* the running total clamped to [50, 100] after every adjustment
RECURSIVE AccumulateClamped(_, _)
AccumulateClamped(start, adj) ==
    IF adj = <<>> THEN <<start>>
    ELSE <<start>> \o AccumulateClamped(
             clamp(start + Head(adj), H(50), H(100)), Tail(adj))

\* the local `score` at line 152 and after each adjustment; the code adds
\* each adjustment to the running total and clamps nothing on the way
RECURSIVE Accumulate(_, _)
Accumulate(start, adj) ==
    IF adj = <<>> THEN <<start>>
    ELSE <<start>> \o Accumulate(start + Head(adj), Tail(adj))

ScoreTrace(in) == Accumulate(H(BASE_LIFE_EXPECTANCY), Adjustments(Parse(in)))

Last(s) == s[Len(s)]

(***************************************************************************)
(* predict_life_expectancy, lines 199-208.  clamp returns its int bound    *)
(* (50 or 100) unless the float score lies strictly inside; an int minus   *)
(* the int age stays an int, which Python never overflows, while a float   *)
(* years_left * 365 beyond the largest double is inf and int(inf) raises   *)
(* OverflowError.                                                          *)
(***************************************************************************)
NoResult ==
    [kind |-> "none", predicted_life_expectancy |-> 0, years_left |-> 0,
     days_left |-> 0]

Raised ==
    [kind |-> "raise", predicted_life_expectancy |-> 0, years_left |-> 0,
     days_left |-> 0]

\* round(years_left * 365) in place of int(...)
DaysLeft_rounded(years_left) == TruncInt(years_left * 365 + 50)

\* predicted_le - age without the floor at 0
YearsLeft_no_floor(predicted_le, age) == predicted_le - H(age)

\* int(years_left * 365), years_left in hundredths
DaysLeft(years_left) == TruncInt(years_left * 365)

\* max(0.0, predicted_le - age)
YearsLeft(predicted_le, age) ==
    IF predicted_le - H(age) > 0 THEN predicted_le - H(age) ELSE 0

Finish(raw, age) ==
    LET predicted_le == clamp(raw, H(50), H(100))
        isfloat == H(50) < raw /\ raw < H(100)
        years_left == YearsLeft(predicted_le, age)
    IN  IF isfloat /\ years_left * 365 > FloatMax
        THEN Raised
        ELSE [kind |-> "return",
              predicted_life_expectancy |-> Round1(predicted_le),
              years_left |-> Round1(years_left),
              days_left |-> DaysLeft(years_left)]

predict_life_expectancy(in) == Finish(Last(ScoreTrace(in)), Parse(in).age)

(***************************************************************************)
(* The forms the scoring function is applied to: every combination of a    *)
(* favourable and an unfavourable value per field, and around four base    *)
(* forms every field swept over its band edges and its malformed values.   *)
(***************************************************************************)
AgeHuge == H(50000)

BoolTokens ==
    {"1", "true", "on", "yes", "On", "TRUE", "Yes", "off", "no", "0", "None"}

Coarse ==
    [age : {Num(0), Num(H(30)), Num(H(120))},
     sex : {"female", "male", "other"},
     bmi : {Num(H(22)), Num(H(35)), Num(0)},
     diabetic : {"None", "on"},
     systolic_bp : {Num(H(118)), Num(H(135)), Num(H(170))},
     smoker : {"None", "on"},
     daily_sleep_hours : {Num(750), Num(H(4))},
     weekly_exercise_minutes : {Num(H(180)), Num(0)},
     alcohol_units_per_week : {Num(0), Num(H(20))},
     fruits_veg_servings_per_day : {Num(H(5)), Num(0)},
     stress_level : {Num(H(3)), Num(H(7)), Num(H(10))},
     cholesterol : {Num(H(170)), Num(H(300))}]

Malformed == {Absent, Text, NaN, PInf, NInf}

FineAge ==
    Malformed \cup {Num(0), Num(3070), Num(H(65)), Num(H(100)), Num(H(101)),
                    Num(AgeHuge), Num(-H(5)), Num(-H(1000)), Num(-AgeHuge)}
FineBmi ==
    Malformed \cup {Num(0), Num(-H(1)), Num(1849), Num(1850), Num(2499),
                    Num(H(25)), Num(2999), Num(H(30))}
FineBp ==
    Malformed \cup {Num(0), Num(50), Num(H(1)), Num(-H(5)), Num(H(119)),
                    Num(11999), Num(H(120)), Num(H(129)), Num(12950),
                    Num(H(130)), Num(H(139)), Num(H(140)), Num(H(159)),
                    Num(H(160)), Num(H(300))}
FineSleep ==
    Malformed \cup {Num(0), Num(649), Num(650), Num(850), Num(851)}
FineExercise ==
    Malformed \cup {Num(0), Num(H(59)), Num(5999), Num(H(60)), Num(H(149)),
                    Num(H(150))}
FineAlcohol ==
    Malformed \cup {Num(0), Num(50), Num(H(1)), Num(H(7)), Num(H(8)),
                    Num(H(14)), Num(H(15)), Num(-H(1))}
FineFruitVeg ==
    Malformed \cup {Num(0), Num(H(2)), Num(H(3)), Num(H(4)), Num(H(5))}
FineStress ==
    Malformed \cup {Num(H(n)) : n \in -3 .. 12} \cup {Num(H(50))}
FineChol ==
    Malformed \cup {Num(0), Num(H(179)), Num(H(180)), Num(H(199)),
                    Num(H(200)), Num(H(239)), Num(H(240))}
FineSex == {NoSex, "female", "male", "other", "Female", ""}

\* the form of the worked example: every field favourable, age 30, female
BestForm ==
    [age |-> Num(H(30)), sex |-> "female", bmi |-> Num(H(22)),
     diabetic |-> "None", systolic_bp |-> Num(H(118)), smoker |-> "None",
     daily_sleep_hours |-> Num(750), weekly_exercise_minutes |-> Num(H(180)),
     alcohol_units_per_week |-> Num(0),
     fruits_veg_servings_per_day |-> Num(H(5)), stress_level |-> Num(H(3)),
     cholesterol |-> Num(H(170))]

\* every field unfavourable, age 0
WorstForm ==
    [age |-> Num(0), sex |-> "other", bmi |-> Num(H(35)),
     diabetic |-> "on", systolic_bp |-> Num(H(170)), smoker |-> "on",
     daily_sleep_hours |-> Num(H(4)), weekly_exercise_minutes |-> Num(0),
     alcohol_units_per_week |-> Num(H(20)),
     fruits_veg_servings_per_day |-> Num(0), stress_level |-> Num(H(10)),
     cholesterol |-> Num(H(300))]

\* the empty dict: every field absent
EmptyForm ==
    [age |-> Absent, sex |-> NoSex, bmi |-> Absent, diabetic |-> "None",
     systolic_bp |-> Absent, smoker |-> "None", daily_sleep_hours |-> Absent,
     weekly_exercise_minutes |-> Absent, alcohol_units_per_week |-> Absent,
     fruits_veg_servings_per_day |-> Absent, stress_level |-> Absent,
     cholesterol |-> Absent]

\* a middling form
MidForm ==
    [age |-> Num(H(45)), sex |-> "male", bmi |-> Num(H(27)),
     diabetic |-> "None", systolic_bp |-> Num(H(135)), smoker |-> "yes",
     daily_sleep_hours |-> Num(H(6)), weekly_exercise_minutes |-> Num(H(90)),
     alcohol_units_per_week |-> Num(H(10)),
     fruits_veg_servings_per_day |-> Num(H(3)), stress_level |-> Num(H(6)),
     cholesterol |-> Num(H(210))]

Bases == {BestForm, WorstForm, EmptyForm, MidForm}

Sweeps ==
    UNION {
        {[b EXCEPT !.age = x] : x \in FineAge}
        \cup {[b EXCEPT !.sex = x] : x \in FineSex}
        \cup {[b EXCEPT !.bmi = x] : x \in FineBmi}
        \cup {[b EXCEPT !.diabetic = x] : x \in BoolTokens}
        \cup {[b EXCEPT !.systolic_bp = x] : x \in FineBp}
        \cup {[b EXCEPT !.smoker = x] : x \in BoolTokens}
        \cup {[b EXCEPT !.daily_sleep_hours = x] : x \in FineSleep}
        \cup {[b EXCEPT !.weekly_exercise_minutes = x] : x \in FineExercise}
        \cup {[b EXCEPT !.alcohol_units_per_week = x] : x \in FineAlcohol}
        \cup {[b EXCEPT !.fruits_veg_servings_per_day = x] : x \in FineFruitVeg}
        \cup {[b EXCEPT !.stress_level = x] : x \in FineStress}
        \cup {[b EXCEPT !.cholesterol = x] : x \in FineChol}
        : b \in Bases }

Forms == Coarse \cup Sweeps

(***************************************************************************)
(* The web application.  Strings arrive already stripped; the e-mail       *)
(* tokens are lower case, as .lower() leaves them.                         *)
(***************************************************************************)
MAX_ATTEMPTS == 7
WINDOW == 600
RESET_MINUTES == 15

\* the browser sessions the model follows; a handler reads and writes only
\* the session of the request it serves
Clients == {"c1"}

AdminEmail == "swagatoroy2002@gmail.com"
AdminName == "pran"
AdminPassword == "moyu2002"

RegNames == {"ann", AdminName}
RegEmails == {"a@x.io", "b@x.io"}
Passwords == {"secret1", AdminPassword}

\* the tokens that contain '@'; all of them have a dot in the domain part
AtTokens == RegEmails \cup {AdminEmail, "ghost@x.io"}

\* '@' in email and '.' in email.split('@')[-1]
EmailWellFormed(e) == e \in AtTokens

\* code.isdigit()
IsDigit(code) == code \in {"111111", "222222", "1234"}

Codes == {"111111", "222222"}

\* generate_password_hash / check_password_hash
generate_password_hash(p) == <<"hash", p>>
check_password_hash(h, p) == h = generate_password_hash(p)

\* init_db_and_admin: the fixed admin account
AdminUser ==
    [name |-> AdminName, email |-> AdminEmail,
     password_hash |-> generate_password_hash(AdminPassword),
     is_admin |-> TRUE]

\* Model.query.filter(...).first(): the id of the first matching row, 0 (None)
\* when there is none
First(table, Match(_)) ==
    LET ids == {i \in DOMAIN table : Match(table[i])}
    IN  IF ids = {} THEN 0 ELSE CHOOSE i \in ids : \A j \in ids : i <= j

UserByEmail(e) == LET M(u) == u.email = e IN First(users, M)
UserByName(n) == LET M(u) == u.name = n IN First(users, M)

\* a response that serves no prediction and answers neither a login nor a
\* reset POST (a redirect, a form, an error page)
NoResponse ==
    [route |-> "none", client |-> "", to |-> 0, preds |-> {},
     status |-> "", email |-> "", code |-> ""]

NoSession == [user_id |-> 0, login_attempts |-> <<>>]

NoCode == [code |-> "", at |-> 0, used |-> TRUE]

EmailKeys == AtTokens \cup {"", "nodomain"}

scoreVars == <<inputs, result, score_trace>>

\* how many Prediction rows the model lets the table hold
MaxPreds == 2

\* how far the clock advances, in steps of five minutes
MaxTicks == 4
TickStep == 5 * 60

(***************************************************************************)
(* Initial states.  Init: a form waits to be scored and the application    *)
(* is as init_db_and_admin leaves it.  InitWeb: the same application with  *)
(* the scoring call left aside.  InitReset: one user has registered.       *)
(***************************************************************************)
AppInit ==
    /\ result = NoResult
    /\ score_trace = <<>>
    /\ predictions = <<>>
    /\ resets = <<>>
    /\ session = [c \in Clients |-> NoSession]
    /\ now = 0
    /\ response = NoResponse
    /\ checked = [c \in Clients |-> <<>>]
    /\ issued = [e \in EmailKeys |-> NoCode]

Init == inputs \in Forms /\ users = <<AdminUser>> /\ AppInit

InitWeb == inputs = EmptyForm /\ users = <<AdminUser>> /\ AppInit

NewUser(name, email, password) ==
    [name |-> name, email |-> email,
     password_hash |-> generate_password_hash(password), is_admin |-> FALSE]

InitReset ==
    /\ inputs = EmptyForm
    /\ users = <<AdminUser, NewUser("ann", "a@x.io", "secret1")>>
    /\ AppInit

(***************************************************************************)
(* predict_life_expectancy applied to the waiting form                     *)
(***************************************************************************)
Score ==
    /\ result.kind = "none"
    /\ result' = predict_life_expectancy(inputs)
    /\ score_trace' = ScoreTrace(inputs)
    /\ UNCHANGED <<inputs, users, predictions, resets, session, now,
                   response, checked, issued>>

(***************************************************************************)
(* The clock                                                               *)
(***************************************************************************)
Tick ==
    /\ now < MaxTicks * TickStep
    /\ now' = now + TickStep
    /\ UNCHANGED <<scoreVars, users, predictions, resets, session, response,
                   checked, issued>>

\* the registration forms posted: every acceptable one, and one for each
\* way of being turned away
RegisterForms ==
    (RegNames \X RegEmails \X {"secret1"})
    \cup {<<"", "a@x.io", "secret1">>, <<"ann", "", "secret1">>,
          <<"ann", "a@x.io", "">>, <<"ann", "nodomain", "secret1">>,
          <<"ann", "a@x.io", "short">>, <<"ann", AdminEmail, "secret1">>}

(***************************************************************************)
(* /register                                                               *)
(***************************************************************************)
register ==
    \E form \in RegisterForms :
        LET name == form[1]
            email == form[2]
            password == form[3]
            created ==
                /\ name # "" /\ email # "" /\ password # ""
                /\ EmailWellFormed(email)
                /\ Len(password) >= 6
                /\ UserByEmail(email) = 0
        IN  /\ users' = IF created
                        THEN Append(users, NewUser(name, email, password))
                        ELSE users
            /\ response' = NoResponse
            /\ UNCHANGED <<scoreVars, predictions, resets, session, now,
                           checked, issued>>

(***************************************************************************)
(* /login and throttle_login                                               *)
(***************************************************************************)
\* attempts = [t for t in attempts if now - t < 600]
Recent(attempts, t) ==
    LET Keep(x) == t - x < WINDOW IN SelectSeq(attempts, Keep)

\* one attempt more than the limit admitted
throttle_login_one_more(attempts, t) == Len(Recent(attempts, t)) > MAX_ATTEMPTS

\* throttle_login returning True
throttle_login(attempts, t) == Len(Recent(attempts, t)) >= MAX_ATTEMPTS

\* the user the form names: by e-mail when it holds '@', else (or when no
\* such e-mail exists) by name
LookupUser(email_or_name) ==
    LET byEmail == IF email_or_name \in AtTokens
                   THEN UserByEmail(email_or_name) ELSE 0
    IN  IF byEmail # 0 THEN byEmail ELSE UserByName(email_or_name)

LoginReply(c) == [NoResponse EXCEPT !.route = "login", !.client = c]

login(c) ==
    \E email_or_name \in RegNames \cup RegEmails \cup {AdminEmail},
       password \in Passwords \cup {"wrong-pw"} :
        IF throttle_login(session[c].login_attempts, now)
        THEN /\ response' = LoginReply(c)
             /\ UNCHANGED <<scoreVars, users, predictions, resets, session,
                            now, checked, issued>>
        ELSE LET uid == LookupUser(email_or_name)
                 ok == /\ uid # 0
                       /\ check_password_hash(users[uid].password_hash,
                                              password)
             IN  /\ session' =
                       [session EXCEPT ![c] =
                           IF ok
                           THEN [user_id |-> uid, login_attempts |-> <<>>]
                           ELSE [@ EXCEPT !.login_attempts =
                                   Append(Recent(@, now), now)]]
                 /\ checked' =
                       [checked EXCEPT ![c] =
                           IF ok THEN <<>> ELSE Append(@, now)]
                 /\ response' = LoginReply(c)
                 /\ UNCHANGED <<scoreVars, users, predictions, resets, now,
                                issued>>

(***************************************************************************)
(* @login_required routes                                                  *)
(***************************************************************************)
current_user(c) == session[c].user_id

Refused ==
    /\ response' = NoResponse
    /\ UNCHANGED <<scoreVars, users, predictions, resets, session, now,
                   checked, issued>>

\* a page or file rendered for the logged-in user from these Prediction rows
Serve(route, c, preds) ==
    IF preds = {} THEN NoResponse
    ELSE [NoResponse EXCEPT !.route = route, !.to = current_user(c),
                            !.preds = preds]

logout(c) ==
    IF current_user(c) = 0 THEN Refused
    ELSE /\ session' = [session EXCEPT ![c].user_id = 0]
         /\ response' = NoResponse
         /\ UNCHANGED <<scoreVars, users, predictions, resets, now, checked,
                        issued>>

\* Prediction.query.filter_by(user_id=current_user.id)
PredictionsOf(uid) == {i \in DOMAIN predictions : predictions[i].user_id = uid}

dashboard(c) ==
    IF current_user(c) = 0 THEN Refused
    ELSE /\ response' =
               Serve("dashboard", c, PredictionsOf(current_user(c)))
         /\ UNCHANGED <<scoreVars, users, predictions, resets, session, now,
                        checked, issued>>

\* the fields /predict requires to be present and non-empty
Missing(form) ==
    \/ form.sex \in {NoSex, ""}
    \/ Absent \in {form.age, form.bmi, form.systolic_bp,
                   form.daily_sleep_hours, form.weekly_exercise_minutes,
                   form.alcohol_units_per_week,
                   form.fruits_veg_servings_per_day, form.stress_level,
                   form.cholesterol}

\* the Prediction row of lines 379-396
PredictionRow(uid, form, r) ==
    [user_id |-> uid,
     age |-> safe_int(form.age, 0),
     sex |-> form.sex,
     bmi |-> safe_float(form.bmi, 0),
     diabetic |-> normalize_bool(form.diabetic),
     systolic_bp |-> safe_int(form.systolic_bp, 0),
     smoker |-> normalize_bool(form.smoker),
     daily_sleep_hours |-> safe_float(form.daily_sleep_hours, 0),
     weekly_exercise_minutes |-> safe_int(form.weekly_exercise_minutes, 0),
     alcohol_units_per_week |-> safe_int(form.alcohol_units_per_week, 0),
     fruits_veg_servings_per_day |->
         safe_int(form.fruits_veg_servings_per_day, 0),
     stress_level |-> safe_int(form.stress_level, 5),
     cholesterol |-> safe_int(form.cholesterol, 180),
     predicted_life_expectancy |-> r.predicted_life_expectancy,
     years_left |-> r.years_left,
     days_left |-> r.days_left]

\* the forms posted to /predict: a complete one, one with fields missing and
\* one on which predict_life_expectancy raises (an unhandled error: nothing
\* is stored)
PredictForms ==
    {BestForm, EmptyForm, [BestForm EXCEPT !.age = Num(-AgeHuge)]}

predict(c) ==
    /\ Len(predictions) < MaxPreds
    /\ \E form \in PredictForms :
        IF current_user(c) = 0 THEN Refused
        ELSE LET r == predict_life_expectancy(form)
                 saved == ~Missing(form) /\ r.kind = "return"
             IN  /\ predictions' =
                       IF saved
                       THEN Append(predictions,
                                   PredictionRow(current_user(c), form, r))
                       ELSE predictions
                 /\ response' = NoResponse
                 /\ UNCHANGED <<scoreVars, users, resets, session, now,
                                checked, issued>>

\* any row with that id, whoever owns it
FindPrediction_any_owner(pred_id, uid) ==
    IF pred_id \in DOMAIN predictions THEN pred_id ELSE 0

\* Prediction.query.filter_by(id=pred_id, user_id=current_user.id).first()
FindPrediction(pred_id, uid) ==
    IF pred_id \in DOMAIN predictions /\ predictions[pred_id].user_id = uid
    THEN pred_id ELSE 0

download(c) ==
    \E pred_id \in 1 .. MaxPreds :
        IF current_user(c) = 0 THEN Refused
        ELSE LET pred == FindPrediction(pred_id, current_user(c))
             IN  /\ response' =
                       IF pred = 0 THEN NoResponse
                       ELSE Serve("download", c, {pred})
                 /\ UNCHANGED <<scoreVars, users, predictions, resets,
                                session, now, checked, issued>>

admin(c) ==
    IF current_user(c) = 0 THEN Refused
    ELSE /\ response' =
               IF users[current_user(c)].is_admin
               THEN Serve("admin", c, DOMAIN predictions)
               ELSE NoResponse
         /\ UNCHANGED <<scoreVars, users, predictions, resets, session, now,
                        checked, issued>>

(***************************************************************************)
(* /forgot and /reset                                                      *)
(***************************************************************************)
ResetRow(email, code, t) ==
    [email |-> email, code |-> code, expires_at |-> t + RESET_MINUTES * 60]

\* the new code added without deleting the earlier rows of the e-mail
IssueCode_keep_old(table, email, code, t) ==
    Append(table, ResetRow(email, code, t))

\* PasswordReset.query.filter_by(email=email).delete(); add the new row
IssueCode(table, email, code, t) ==
    LET Other(r) == r.email # email
    IN  Append(SelectSeq(table, Other), ResetRow(email, code, t))

\* whether send_email succeeds changes the redirect only
forgot_password ==
    \E email \in RegEmails \cup {AdminEmail, "ghost@x.io", ""},
       code \in Codes :
        LET known == email # "" /\ UserByEmail(email) # 0
        IN  /\ resets' = IF known THEN IssueCode(resets, email, code, now)
                         ELSE resets
            /\ issued' = IF known
                         THEN [issued EXCEPT ![email] =
                                 [code |-> code, at |-> now, used |-> FALSE]]
                         ELSE issued
            /\ response' = NoResponse
            /\ UNCHANGED <<scoreVars, users, predictions, session, now,
                           checked>>

\* PasswordReset.query.filter_by(email=email, code=code).first()
FindReset(email, code) ==
    LET M(r) == r.email = email /\ r.code = code IN First(resets, M)

Without(table, id) ==
    [i \in 1 .. Len(table) - 1 |-> IF i < id THEN table[i] ELSE table[i + 1]]

reset_password ==
    \E email \in RegEmails \cup {AdminEmail, "ghost@x.io", ""},
       code \in Codes \cup {"1234", "abcdef"},
       new_password \in {"newpass1", "short"} :
        LET pr == FindReset(email, code)
            uid == UserByEmail(email)
            status ==
                IF Len(code) # 6 \/ ~IsDigit(code) THEN "bad_code"
                ELSE IF Len(new_password) < 6 THEN "short_password"
                ELSE IF pr = 0 THEN "invalid_or_expired"
                ELSE IF resets[pr].expires_at < now THEN "invalid_or_expired"
                ELSE IF uid = 0 THEN "no_user"
                ELSE "ok"
        IN  /\ users' =
                  IF status = "ok"
                  THEN [users EXCEPT ![uid].password_hash =
                          generate_password_hash(new_password)]
                  ELSE users
            /\ resets' = IF status = "ok" THEN Without(resets, pr) ELSE resets
            /\ issued' = IF status = "ok"
                         THEN [issued EXCEPT ![email].used = TRUE]
                         ELSE issued
            /\ response' = [NoResponse EXCEPT
                               !.route = "reset", !.status = status,
                               !.email = email, !.code = code]
            /\ UNCHANGED <<scoreVars, predictions, session, now, checked>>

(***************************************************************************)
(* Specifications                                                          *)
(***************************************************************************)
Next == Score

Spec == Init /\ [][Next]_vars

NextAccess ==
    \/ register
    \/ \E c \in Clients :
          \/ login(c)
          \/ logout(c)
          \/ predict(c)
          \/ dashboard(c)
          \/ download(c)
          \/ admin(c)

SpecAccess == InitWeb /\ [][NextAccess]_vars

NextThrottle == Tick \/ \E c \in Clients : login(c)

SpecThrottle == InitWeb /\ [][NextThrottle]_vars

NextReset == Tick \/ forgot_password \/ reset_password

SpecReset == InitReset /\ [][NextReset]_vars

(***************************************************************************)
(* Properties of the scoring function (specification Spec)                 *)
(***************************************************************************)
Returned == result.kind = "return"

Max(a, b) == IF a >= b THEN a ELSE b

\* age=0, bmi=35, bp=170, diabetic, smoker, sleep=4, exercise=0, alcohol=20,
\* fruitveg=0, stress=10, cholesterol=300, whatever the sex
IsWorstCase(in) == [in EXCEPT !.sex = "other"] = WorstForm

\* C1: every returned predicted_life_expectancy lies in [50, 100]; the
\* worst-case profile has a pre-clamp total below 50 and returns exactly 50.
C1_ExpectancyInBand ==
    Returned =>
        /\ H(50) <= result.predicted_life_expectancy
        /\ result.predicted_life_expectancy <= H(100)
        /\ IsWorstCase(inputs) =>
              /\ Last(score_trace) < H(50)
              /\ result.predicted_life_expectancy = H(50)

C1_Witness ==
    /\ Returned
    /\ IsWorstCase(inputs)
    /\ inputs.sex = "female"
    /\ Last(score_trace) = H(49)
    /\ result.predicted_life_expectancy = H(50)

\* C2: the returned years_left is max(0, predicted_life_expectancy - age),
\* never negative, also for an age above 100.
C2_YearsLeftFloored ==
    Returned =>
        /\ result.years_left =
              Max(0, result.predicted_life_expectancy - H(Parse(inputs).age))
        /\ result.years_left >= 0

C2_Witness ==
    /\ Returned
    /\ Parse(inputs).age > 100
    /\ result.years_left = 0

\* C3: the returned days_left is floor(years_left * 365) of the returned
\* (rounded) years_left.
C3_DaysLeftIsFloor ==
    Returned => result.days_left = (result.years_left * 365) \div 100

C3_Witness ==
    /\ Returned
    /\ (result.years_left * 365) % 100 # 0
    /\ result.days_left > 0

\* C4: the worked example (age 30, female, bmi 22, bp 118, sleep 7.5,
\* exercise 180, alcohol 0, fruit/veg 5, stress 3, cholesterol 170, neither
\* diabetic nor smoker) returns 93.5, 63.5 and 23177.
C4_WorkedExample ==
    (inputs = BestForm /\ result.kind # "none") =>
        result = [kind |-> "return", predicted_life_expectancy |-> 9350,
                  years_left |-> 6350, days_left |-> 23177]

C4_Witness == inputs = BestForm /\ Returned

RECURSIVE SumReversed(_)
SumReversed(a) ==
    IF a = <<>> THEN 0 ELSE a[Len(a)] + SumReversed(SubSeq(a, 1, Len(a) - 1))

\* C5: every step of the running total adds exactly the adjustment of its one
\* field, no step is clamped, the pre-clamp total is 78 plus the adjustments
\* summed in any (here: the reverse) order, and the prediction is the single
\* clamp to [50, 100] of that total.
C5_ClampOnce ==
    result.kind # "none" =>
        LET a == Adjustments(Parse(inputs))
            total == H(BASE_LIFE_EXPECTANCY) + SumReversed(a)
        IN  /\ Len(score_trace) = Len(a) + 1
            /\ \A i \in 1 .. Len(a) :
                  score_trace[i + 1] - score_trace[i] = a[i]
            /\ Last(score_trace) = total
            /\ Returned =>
                  result.predicted_life_expectancy =
                      IF total < H(50) THEN H(50)
                      ELSE IF total > H(100) THEN H(100)
                      ELSE total

\* the running total is below 50 part-way and back inside by the end
C5_Witness ==
    /\ Returned
    /\ \E i \in 1 .. Len(score_trace) : score_trace[i] < H(50)
    /\ Last(score_trace) >= H(50)

\* what the blood-pressure block added to the running total
BpDelta == score_trace[BpStep + 1] - score_trace[BpStep]

\* the bands of the claim
BpBand(s) ==
    IF s < 120 THEN H(1)
    ELSE IF s < 130 THEN 0
    ELSE IF s < 140 THEN -H(1)
    ELSE IF s < 160 THEN -H(3)
    ELSE -H(5)

\* C6 as stated: every non-negative integer systolic pressure s contributes
\* +1 below 120, 0 in [120,130), -1 in [130,140), -3 in [140,160), -5 from 160.
C6_Original ==
    (/\ result.kind # "none"
     /\ inputs.systolic_bp.kind = "num"
     /\ Parse(inputs).systolic_bp >= 0) =>
        BpDelta = BpBand(Parse(inputs).systolic_bp)

\* C6 amended: the bands hold for every positive s; s = 0 (the value of an
\* absent field) contributes nothing.
C6_BpBands ==
    (result.kind # "none" /\ Parse(inputs).systolic_bp >= 0) =>
        BpDelta = IF Parse(inputs).systolic_bp = 0 THEN 0
                  ELSE BpBand(Parse(inputs).systolic_bp)

C6_Witness ==
    /\ Returned
    /\ inputs.systolic_bp = Num(0)
    /\ BpDelta = 0

\* an absent or unparsable numeric field replaced by its default, written out
Defaulted(raw, default) ==
    IF raw.kind \in {"absent", "text"} THEN Num(H(default)) ELSE raw

WithDefaults(in) ==
    [in EXCEPT
        !.age = Defaulted(@, 0),
        !.bmi = Defaulted(@, 0),
        !.systolic_bp = Defaulted(@, 0),
        !.daily_sleep_hours = Defaulted(@, 0),
        !.weekly_exercise_minutes = Defaulted(@, 0),
        !.alcohol_units_per_week = Defaulted(@, 0),
        !.fruits_veg_servings_per_day = Defaulted(@, 0),
        !.stress_level = Defaulted(@, 5),
        !.cholesterol = Defaulted(@, 180)]

\* C7: predict_life_expectancy never raises, and an absent or unparsable
\* field gives exactly the result of that field's default.
C7_Total ==
    result.kind # "none" =>
        /\ Returned
        /\ result = predict_life_expectancy(WithDefaults(inputs))

\* the second half of C7 alone, which the code satisfies
C7_DefaultsOnly ==
    result.kind # "none" =>
        result = predict_life_expectancy(WithDefaults(inputs))

(***************************************************************************)
(* Who is served which predictions (specification SpecAccess)              *)
(***************************************************************************)
\* C8 as stated: a response carries only predictions of the user it is
\* rendered for, on every route.
C8_Original ==
    \A i \in response.preds : predictions[i].user_id = response.to

\* C8 amended: a response carries only predictions of the user it is rendered
\* for, except the /admin page, rendered for a user with is_admin, which
\* lists every prediction.
C8_OwnerOrAdmin ==
    \A i \in response.preds :
        \/ predictions[i].user_id = response.to
        \/ response.route = "admin" /\ users[response.to].is_admin

\* a user who is not admin downloads a prediction of their own while a row of
\* another user is in the table
C8_Witness ==
    /\ response.route = "download"
    /\ response.to # 0
    /\ ~users[response.to].is_admin
    /\ \A i \in response.preds : predictions[i].user_id = response.to
    /\ \E j \in DOMAIN predictions : predictions[j].user_id # response.to

(***************************************************************************)
(* The login throttle (specification SpecThrottle)                         *)
(***************************************************************************)
\* the POSTs of the session that reached the credential check less than 600
\* seconds ago, none of them followed by a successful login
RecentChecks(c) ==
    {i \in DOMAIN checked[c] : now - checked[c][i] < WINDOW}

\* no 8 POSTs that reached the credential check lie less than 600 s apart
C9_Window ==
    \A c \in Clients : \A i, j \in DOMAIN checked[c] :
        j >= i + MAX_ATTEMPTS => checked[c][j] - checked[c][i] >= WINDOW

\* a login POST of session c
LoginPost(c) ==
    now' = now /\ response'.route = "login" /\ response'.client = c

\* with 7 recent checks the POST is turned away: the session (its user and
\* its recorded attempts) stays as it was; with fewer it reaches the check
C9_Post ==
    \A c \in Clients :
        LoginPost(c) =>
            IF Cardinality(RecentChecks(c)) >= MAX_ATTEMPTS
            THEN session' = session /\ checked' = checked
            ELSE \/ /\ checked'[c] = Append(checked[c], now)
                    /\ session'[c].user_id = session[c].user_id
                    /\ Len(session'[c].login_attempts) <= MAX_ATTEMPTS
                 \/ /\ checked'[c] = <<>>
                    /\ session'[c].login_attempts = <<>>
                    /\ session'[c].user_id # 0

\* C9: per session, at most 7 login POSTs reach the credential check in any
\* 600-second window without a successful login; a further POST is turned
\* away, recorded nowhere, and the session is admitted again once fewer than
\* 7 of its checks are less than 600 seconds old.
C9_Throttle == [] C9_Window /\ [][C9_Post]_vars

\* an 8th POST was admitted after the window had moved on, and the session
\* is throttled again
C9_Witness ==
    \E c \in Clients :
        /\ Len(checked[c]) > MAX_ATTEMPTS
        /\ Cardinality(RecentChecks(c)) >= MAX_ATTEMPTS
        /\ response.route = "login"
        /\ session[c].user_id = 0

(***************************************************************************)
(* Password reset (specification SpecReset)                                *)
(***************************************************************************)
\* code k is the one issued last for e-mail e, is not older than 15 minutes
\* and has not served a reset
Live(e, k) ==
    /\ ~issued[e].used
    /\ issued[e].code = k
    /\ now <= issued[e].at + RESET_MINUTES * 60

ResetPost == now' = now /\ response'.route = "reset"

C10_Post ==
    /\ ResetPost =>
          LET e == response'.email
              k == response'.code
          IN  /\ response'.status = "ok" =>
                    /\ Live(e, k)
                    /\ \A u \in DOMAIN users :
                          users[u].email # e => users'[u] = users[u]
                    /\ \A i \in DOMAIN resets' : resets'[i].email # e
              /\ response'.status # "ok" =>
                    users' = users /\ resets' = resets
              /\ ~Live(e, k) => users' = users /\ resets' = resets
    /\ users' # users => ResetPost /\ response'.status = "ok"

\* C10: a reset request changes the password only when it carries the code
\* issued last for that e-mail, not expired and not yet used; every other
\* reset request leaves the users and the reset records as they were.
C10_ResetOnlyWithLiveCode == [][C10_Post]_vars

\* a reset went through with the second code issued for the e-mail
C10_Witness ==
    /\ response.route = "reset"
    /\ response.status = "ok"
    /\ response.email = "a@x.io"
    /\ users[2].password_hash = generate_password_hash("newpass1")
    /\ users[1] = AdminUser
    /\ issued["a@x.io"].at > 0
====
